---- MODULE Spec2Model ----
(***************************************************************************)
(* Model of mfrr_app.py, a Streamlit dashboard script.  Streamlit runs the *)
(* script top to bottom in a fresh namespace on every widget change; only  *)
(* the st.cache_data results and the widget values survive a rerun.        *)
(*                                                                         *)
(* A DataFrame is a record [columns, rows]: columns is the sequence of     *)
(* column names, rows the sequence of rows, each row a function from the   *)
(* column names to cells.  A column name is the sequence of its            *)
(* whitespace-separated tokens, so that str.split() is the name itself.    *)
(* A numeric cell is <<v>>, a missing one (NaN) is <<>>.  Timestamps are   *)
(* day numbers.  The pandas index is not modelled.                         *)
(***************************************************************************)
EXTENDS Integers, Sequences, FiniteSets, TLC

\* ---------------------------------------------------------------- bounds
\* Largest number of data rows in a spreadsheet.
MaxRows == 2

\* -------------------------------------------------------- column names
Period == <<"Period">>
Datum == <<"Datum">>
Elomrade == <<"Elomrade">>
Price == <<"Price">>
Volume == <<"Volume">>
Product == <<"Product">>
Region == <<"Region">>
Date == <<"Date">>
Market == <<"Market">>

mFRRUppPris == <<"mFRR", "Upp", "Pris", "(EUR/MW)">>
mFRRNedPris == <<"mFRR", "Ned", "Pris", "(EUR/MW)">>

\* f'mFRR {"Upp" if "Up" in product_selection else "Ned"} Volym (MW)'
mfrr_vol_col(selection) ==
    <<"mFRR", IF selection \in {"FCR-D Up", "mFRR Up"} THEN "Upp" ELSE "Ned",
      "Volym", "(MW)">>

\* The options of the selectbox and of the multiselect, and the keys of
\* price_products.
ProductOptions == <<"FCR-N", "FCR-D Up", "FCR-D Down", "mFRR Up", "mFRR Down">>

\* 'FCR' in product_selection
IsFcrProduct(selection) == selection \in {"FCR-N", "FCR-D Up", "FCR-D Down"}

price_mapping ==
    << <<(<<"FCR-N", "Pris", "(EUR/MW)">>), "FCR-N">>,
       <<(<<"FCR-D", "upp", "Pris", "(EUR/MW)">>), "FCR-D Up">>,
       <<(<<"FCR-D", "ned", "Pris", "(EUR/MW)">>), "FCR-D Down">> >>

volume_mapping ==
    << <<(<<"SE1", "FCRN">>), "FCR-N">>,
       <<(<<"SE2", "FCRN">>), "FCR-N">>,
       <<(<<"SE3", "FCRN">>), "FCR-N">>,
       <<(<<"SE4", "FCRN">>), "FCR-N">>,
       <<(<<"DK2", "FCRN">>), "FCR-N">>,
       <<(<<"SE1", "FCRD", "upp">>), "FCR-D Up">>,
       <<(<<"SE2", "FCRD", "upp">>), "FCR-D Up">>,
       <<(<<"SE3", "FCRD", "upp">>), "FCR-D Up">>,
       <<(<<"SE4", "FCRD", "upp">>), "FCR-D Up">>,
       <<(<<"DK2", "FCRD", "upp">>), "FCR-D Up">>,
       <<(<<"SE1", "FCRD", "ned">>), "FCR-D Down">>,
       <<(<<"SE2", "FCRD", "ned">>), "FCR-D Down">>,
       <<(<<"SE3", "FCRD", "ned">>), "FCR-D Down">>,
       <<(<<"SE4", "FCRD", "ned">>), "FCR-D Down">>,
       <<(<<"DK2", "FCRD", "ned">>), "FCR-D Down">> >>

mfrr_price_mapping ==
    << <<mFRRUppPris, "mFRR Up">>,
       <<mFRRNedPris, "mFRR Down">> >>

\* ------------------------------------------------------------- cells
NaN == <<>>
Num(v) == <<v>>
IsNaN(c) == c = NaN

\* Series >= scalar and Series <= scalar on one cell: a comparison with NaN
\* is False.
CellGe(c, v) == IF IsNaN(c) THEN FALSE ELSE c[1] >= v
CellLe(c, v) == IF IsNaN(c) THEN FALSE ELSE c[1] <= v

\* ------------------------------------------------------- DataFrames
\* pd.DataFrame()
EmptyFrame == [columns |-> <<>>, rows |-> <<>>]

Range(s) == {s[i] : i \in 1..Len(s)}

\* col in df.columns
HasColumn(df, col) == col \in Range(df.columns)

\* df.empty
IsEmpty(df) == Len(df.rows) = 0 \/ Len(df.columns) = 0

\* df[[c1, ..., ck]].copy(): a new frame with the listed columns.
SelectColumns(df, cols) ==
    [columns |-> cols,
     rows |-> [i \in 1..Len(df.rows) |->
                 [c \in Range(cols) |-> df.rows[i][c]]]]

\* temp_df.columns = names: the columns are renamed by position.
SetColumns(df, names) ==
    [columns |-> names,
     rows |-> [i \in 1..Len(df.rows) |->
                 [c \in Range(names) |->
                    df.rows[i][df.columns[CHOOSE k \in 1..Len(names) : names[k] = c]]]]]

\* df.rename(columns=renames): renames is a set of <<old, new>> pairs.
NewName(renames, c) ==
    IF \E p \in renames : p[1] = c
    THEN (CHOOSE p \in renames : p[1] = c)[2]
    ELSE c

OldName(renames, df, c) ==
    df.columns[CHOOSE k \in 1..Len(df.columns) : NewName(renames, df.columns[k]) = c]

Rename(df, renames) ==
    [columns |-> [k \in 1..Len(df.columns) |-> NewName(renames, df.columns[k])],
     rows |-> [i \in 1..Len(df.rows) |->
                 [c \in {NewName(renames, d) : d \in Range(df.columns)} |->
                    df.rows[i][OldName(renames, df, c)]]]]

\* temp_df[col] = value and df.assign(col=value): a constant column is added
\* at the end.
AssignColumn(df, col, value) ==
    [columns |-> IF HasColumn(df, col) THEN df.columns ELSE Append(df.columns, col),
     rows |-> [i \in 1..Len(df.rows) |->
                 [c \in Range(df.columns) \cup {col} |->
                    IF c = col THEN value ELSE df.rows[i][c]]]]

\* pd.concat([a, b]): the rows of a, then the rows of b, over the union of
\* the columns; a cell of a column the frame lacks is NaN.
NewColumns(a, b) == SelectSeq(b.columns, LAMBDA c : ~HasColumn(a, c))

Widen(row, cols) == [c \in cols |-> IF c \in DOMAIN row THEN row[c] ELSE NaN]

Concat(a, b) ==
    LET cols == a.columns \o NewColumns(a, b)
        all == a.rows \o b.rows
    IN [columns |-> cols,
        rows |-> [i \in 1..Len(all) |-> Widen(all[i], Range(cols))]]

\* df[mask]: the rows at which the boolean series mask is True, in order.
RECURSIVE KeepRows(_, _)
KeepRows(rows, mask) ==
    IF rows = <<>> THEN <<>>
    ELSE (IF Head(mask) THEN <<Head(rows)>> ELSE <<>>)
            \o KeepRows(Tail(rows), Tail(mask))

Mask(df, mask) == [columns |-> df.columns, rows |-> KeepRows(df.rows, mask)]

\* Series.min() and Series.max() of a timestamp column without missing cells.
ColumnMin(df, col) ==
    LET vals == {df.rows[i][col] : i \in 1..Len(df.rows)}
    IN CHOOSE v \in vals : \A w \in vals : v <= w

ColumnMax(df, col) ==
    LET vals == {df.rows[i][col] : i \in 1..Len(df.rows)}
    IN CHOOSE v \in vals : \A w \in vals : v >= w

\* Mutant of ComesBefore: keep='last', rows with equal values in reverse order.
ComesBefore_KeepLast(df, col, j, i) ==
    LET a == df.rows[j][col]
        b == df.rows[i][col]
    IN IF IsNaN(a) THEN IsNaN(b) /\ j < i
       ELSE IF IsNaN(b) THEN TRUE
       ELSE a[1] > b[1] \/ (a[1] = b[1] /\ j > i)

\* DataFrame.nlargest(n, col), keep='first': the n rows with the largest
\* values of col, in descending order; rows with equal values keep their
\* order in df, and rows whose cell is missing come last, in their order.
ComesBefore(df, col, j, i) ==
    LET a == df.rows[j][col]
        b == df.rows[i][col]
    IN IF IsNaN(a) THEN IsNaN(b) /\ j < i
       ELSE IF IsNaN(b) THEN TRUE
       ELSE a[1] > b[1] \/ (a[1] = b[1] /\ j < i)

NLargest(df, n, col) ==
    LET m == Len(df.rows)
        rank(i) == Cardinality({j \in 1..m : ComesBefore(df, col, j, i)})
        size == IF n < m THEN n ELSE m
    IN [columns |-> df.columns,
        rows |-> [k \in 1..size |-> df.rows[CHOOSE i \in 1..m : rank(i) = k - 1]]]

\* ------------------------------------------------- prepare_fcr_data
\* One iteration of the price loop: temp_df for one mapped column.
PriceTemp(df, col, product) ==
    AssignColumn(SetColumns(SelectColumns(df, <<Datum, col>>), <<Datum, Price>>),
                 Product, product)

RECURSIVE PriceLoop(_, _, _)
PriceLoop(df, k, price_df) ==
    IF k > Len(price_mapping) THEN price_df
    ELSE LET col == price_mapping[k][1]
             product == price_mapping[k][2]
         IN IF HasColumn(df, col)
            THEN PriceLoop(df, k + 1, Concat(price_df, PriceTemp(df, col, product)))
            ELSE PriceLoop(df, k + 1, price_df)

\* Mutant of VolumeTemp: Region is col.split()[1].
VolumeTemp_SecondToken(df, col, product) ==
    AssignColumn(
        AssignColumn(SetColumns(SelectColumns(df, <<Datum, col>>), <<Datum, Volume>>),
                     Product, product),
        Region, col[2])

\* One iteration of the volume loop; Region is col.split()[0].
VolumeTemp(df, col, product) ==
    AssignColumn(
        AssignColumn(SetColumns(SelectColumns(df, <<Datum, col>>), <<Datum, Volume>>),
                     Product, product),
        Region, Head(col))

RECURSIVE VolumeLoop(_, _, _)
VolumeLoop(df, k, volume_df) ==
    IF k > Len(volume_mapping) THEN volume_df
    ELSE LET col == volume_mapping[k][1]
             product == volume_mapping[k][2]
         IN IF HasColumn(df, col)
            THEN VolumeLoop(df, k + 1, Concat(volume_df, VolumeTemp(df, col, product)))
            ELSE VolumeLoop(df, k + 1, volume_df)

\* Mutant of prepare_fcr_data: the loop writes the Product column to df
\* itself instead of the copy.
prepare_fcr_data_InPlace(df) ==
    <<PriceLoop(df, 1, EmptyFrame), VolumeLoop(df, 1, EmptyFrame),
      IF \E k \in 1..Len(price_mapping) : HasColumn(df, price_mapping[k][1])
      THEN AssignColumn(df, Product, price_mapping[1][2])
      ELSE df>>

\* prepare_fcr_data(df): <<price_df, volume_df, df after the call>>.  The
\* loops write to temp_df only, which is a copy, so the frame the caller
\* passed is left as it was.
prepare_fcr_data(df) ==
    <<PriceLoop(df, 1, EmptyFrame), VolumeLoop(df, 1, EmptyFrame), df>>

\* ------------------------------------------------------------ filters
\* Mutant of InDateRange: the upper bound is exclusive.
InDateRange_Exclusive(row, range) == row[Datum] >= range[1] /\ row[Datum] < range[2]

\* (df['Datum'] >= date_range[0]) & (df['Datum'] <= date_range[1])
InDateRange(row, range) == row[Datum] >= range[1] /\ row[Datum] <= range[2]

\* Mutant of InPriceRange: a missing price passes the mask.
InPriceRange_KeepsMissing(row, lo, hi) ==
    IsNaN(row[Price]) \/ (CellGe(row[Price], lo) /\ CellLe(row[Price], hi))

\* (df['Price'] >= min_price) & (df['Price'] <= max_price)
InPriceRange(row, lo, hi) == CellGe(row[Price], lo) /\ CellLe(row[Price], hi)

\* Lines 125-130 and 166-171: the date and price mask of a long price table.
FilterPrices(df, range, lo, hi) ==
    Mask(df, [i \in 1..Len(df.rows) |->
                InDateRange(df.rows[i], range) /\ InPriceRange(df.rows[i], lo, hi)])

\* Lines 132-135 and 224-227: the date mask of a volume table.
FilterDates(df, range) ==
    Mask(df, [i \in 1..Len(df.rows) |-> InDateRange(df.rows[i], range)])

\* df[df[col].isin(labels)]
FilterIsin(df, col, labels) ==
    Mask(df, [i \in 1..Len(df.rows) |-> df.rows[i][col] \in labels])

\* df[df[col] == label]
FilterEquals(df, col, label) ==
    Mask(df, [i \in 1..Len(df.rows) |-> df.rows[i][col] = label])

\* Mutant of ApplyProductFilter: isin is applied to an empty selection too.
ApplyProductFilter_Unguarded(df, labels) == FilterIsin(df, Market, labels)

\* Lines 262-263: the product filter of the price analysis.
ApplyProductFilter(df, labels) ==
    IF labels # {} THEN FilterIsin(df, Market, labels) ELSE df

\* Lines 163-165: the mFRR price series of one product, before the mask.
MfrrPriceLong(df, col, product) ==
    AssignColumn(SetColumns(SelectColumns(df, <<Period, col>>), <<Datum, Price>>),
                 Product, product)

\* Lines 163-171: the mFRR price series of one product.
MfrrPriceTemp(df, col, product, range, lo, hi) ==
    FilterPrices(MfrrPriceLong(df, col, product), range, lo, hi)

\* Lines 161-183: the traces added to fig_price, one per ticked mFRR product
\* whose price column is present.
RECURSIVE MfrrTraces(_, _, _, _, _, _, _)
MfrrTraces(df, k, ticked, range, lo, hi, traces) ==
    IF k > Len(mfrr_price_mapping) THEN traces
    ELSE LET col == mfrr_price_mapping[k][1]
             product == mfrr_price_mapping[k][2]
         IN IF ticked[product] /\ HasColumn(df, col)
            THEN MfrrTraces(df, k + 1, ticked, range, lo, hi,
                            Append(traces,
                                   [name |-> product,
                                    data |-> MfrrPriceTemp(df, col, product, range, lo, hi)]))
            ELSE MfrrTraces(df, k + 1, ticked, range, lo, hi, traces)

\* Lines 257-258: one mFRR part of all_prices.
MfrrPricePart(df, col, market) ==
    AssignColumn(Rename(SelectColumns(df, <<Period, col>>),
                        {<<Period, Date>>, <<col, Price>>}),
                 Market, market)

\* Lines 255-259: all_prices before the product filter.
CombinedPrices(fcr_prices, mfrr) ==
    Concat(Concat(Rename(fcr_prices, {<<Datum, Date>>, <<Product, Market>>}),
                  MfrrPricePart(mfrr, mFRRUppPris, "mFRR Up")),
           MfrrPricePart(mfrr, mFRRNedPris, "mFRR Down"))

\* Lines 222-223: filtered_mfrr before the mask.
MfrrVolumeLong(df, col) ==
    SetColumns(SelectColumns(df, <<Period, Elomrade, col>>),
               <<Datum, Elomrade, Volume>>)

\* Lines 222-227: the mFRR volume table of the selected product.
MfrrVolumes(df, col, range) == FilterDates(MfrrVolumeLong(df, col), range)

\* ------------------------------------------------ the two spreadsheets
\* A spreadsheet file: readable tells whether pd.read_excel succeeds, sheet
\* is the table it returns.  Date cells are day numbers (Excel date cells are
\* read as datetime64, which pd.to_datetime keeps as they are).
MfrrHeader ==
    <<Period, Elomrade, mFRRUppPris, mFRRNedPris,
      mfrr_vol_col("mFRR Up"), mfrr_vol_col("mFRR Down")>>

MfrrRow(day, zone, up, down) ==
    [c \in Range(MfrrHeader) |->
        CASE c = Period -> day
          [] c = Elomrade -> zone
          [] c = mFRRUppPris -> up
          [] c = mFRRNedPris -> down
          [] c = mfrr_vol_col("mFRR Up") -> Num(40)
          [] OTHER -> Num(30)]

MfrrRowPool ==
    { MfrrRow(1, "SE1", Num(505), NaN),
      MfrrRow(2, "SE2", Num(10), Num(10)) }

FcrPriceHeader == <<price_mapping[1][1], price_mapping[2][1], price_mapping[3][1]>>
FcrVolumeHeader == <<volume_mapping[1][1], volume_mapping[2][1], volume_mapping[6][1]>>
FcrHeader == <<Datum>> \o FcrPriceHeader \o FcrVolumeHeader

FcrRow(day, n, up, down) ==
    [c \in Range(FcrHeader) |->
        CASE c = Datum -> day
          [] c = price_mapping[1][1] -> n
          [] c = price_mapping[2][1] -> up
          [] c = price_mapping[3][1] -> down
          [] c = volume_mapping[1][1] -> Num(7)
          [] c = volume_mapping[2][1] -> Num(8)
          [] OTHER -> NaN]

FcrRowPool ==
    { FcrRow(2, Num(10), NaN, Num(505)),
      FcrRow(3, Num(10), Num(5), Num(10)) }

\* The column sets the spreadsheets come with: the full header, and headers
\* that lack some of the columns the script looks up.
MfrrHeaders ==
    { MfrrHeader,
      SelectSeq(MfrrHeader, LAMBDA c : c # mfrr_vol_col("mFRR Up")),
      SelectSeq(MfrrHeader, LAMBDA c : c # mFRRNedPris) }

FcrHeaders ==
    { FcrHeader,
      SelectSeq(FcrHeader, LAMBDA c : c # price_mapping[3][1]),
      <<Datum>> \o FcrPriceHeader }

\* The sheets with the given headers and 1..most rows of the pool, in any
\* order.
Sheets(headers, pool, most) ==
    { SelectColumns([columns |-> <<>>, rows |-> rows], h) :
        h \in headers,
        rows \in UNION {[1..n -> pool] : n \in 1..most} }

Readable(sheets) == {[readable |-> TRUE, sheet |-> t] : t \in sheets}

Unreadable == [readable |-> FALSE, sheet |-> EmptyFrame]

\* Spreadsheets with the full header and up to MaxRows rows, and the
\* unreadable and the incomplete ones with one row.
FullMfrrFiles == Readable(Sheets({MfrrHeader}, MfrrRowPool, MaxRows))
FullFcrFiles == Readable(Sheets({FcrHeader}, FcrRowPool, MaxRows))
SmallMfrrFiles == {Unreadable} \cup Readable(Sheets(MfrrHeaders, MfrrRowPool, 1))
SmallFcrFiles == {Unreadable} \cup Readable(Sheets(FcrHeaders, FcrRowPool, 1))

FilePairs ==
    (FullMfrrFiles \X FullFcrFiles) \cup (SmallMfrrFiles \X SmallFcrFiles)

\* ------------------------------------------------------- widget values
\* st.sidebar.slider('Filter Price Range (EUR/MW)', 0, 500, (0, 500), step=5)
PriceSliderMin == 0
PriceSliderMax == 500
PriceSliderStep == 5
PriceSliderValues ==
    {v \in PriceSliderMin..PriceSliderMax : (v - PriceSliderMin) % PriceSliderStep = 0}

\* st.slider('Number of top prices to show', 5, 50, 10)
TopNMin == 5
TopNMax == 50
TopNDefault == 10

ProductSet == Range(ProductOptions)

\* The values the user sets the widgets to.
PriceRangeChoices == {<<5, 5>>}
TickedChoices == {{}, {"FCR-N", "mFRR Up"}}
TopNChoices == {5}
ProductFilterChoices == {{}, {"FCR-D Down", "mFRR Up"}}

\* ---------------------------------------------------------------- state
VARIABLES
    mfrr_file, fcr_file,        \* "MFRR CM.xlsx" and "FCR Dashboard.xlsx"
    cache,                      \* st.cache_data: function name -> <<>> or <<entry>>
    first_run,                  \* no widget has been touched yet
    pc,                         \* the section of the script that runs next
    raised,                     \* <<>>, or <<exception, line>> of the uncaught exception
    messages,                   \* the st.error elements of this run
    rendered,                   \* the charts and tables rendered in this run
    namespace,                  \* the names bound in this run
    mfrr_df, fcr_df,
    min_date, max_date, date_range, price_products, min_price, max_price,
    fcr_price_df, fcr_volume_df,
    selected_price_products, filtered_price_df, fig_price,
    product_selection, fig_vol,
    top_n, product_filter, all_prices, top_prices, fig_dist

files == <<mfrr_file, fcr_file>>
loaded == <<mfrr_df, fcr_df>>
sidebar == <<min_date, max_date, date_range, price_products, min_price, max_price>>
prepared == <<fcr_price_df, fcr_volume_df>>
price_view == <<selected_price_products, filtered_price_df, fig_price>>
volume_view == <<product_selection, fig_vol>>
analysis == <<top_n, product_filter, all_prices, top_prices, fig_dist>>

vars == <<files, cache, first_run, pc, raised, messages, rendered, namespace,
          loaded, sidebar, prepared, price_view, volume_view, analysis>>

NoFigure == [data |-> EmptyFrame, color |-> <<>>, traces |-> <<>>]

\* The module namespace at the start of a run: nothing is bound.
FreshRun ==
    /\ pc = "load_mfrr"
    /\ raised = <<>>
    /\ messages = <<>>
    /\ rendered = <<>>
    /\ namespace = {}
    /\ mfrr_df = EmptyFrame
    /\ fcr_df = EmptyFrame
    /\ min_date = 0
    /\ max_date = 0
    /\ date_range = <<0, 0>>
    /\ price_products = [p \in ProductSet |-> TRUE]
    /\ min_price = PriceSliderMin
    /\ max_price = PriceSliderMax
    /\ fcr_price_df = EmptyFrame
    /\ fcr_volume_df = EmptyFrame
    /\ selected_price_products = <<>>
    /\ filtered_price_df = EmptyFrame
    /\ fig_price = NoFigure
    /\ product_selection = ProductOptions[1]
    /\ fig_vol = NoFigure
    /\ top_n = TopNDefault
    /\ product_filter = ProductSet
    /\ all_prices = EmptyFrame
    /\ top_prices = EmptyFrame
    /\ fig_dist = NoFigure

Init ==
    /\ \E pair \in FilePairs :
          /\ mfrr_file = pair[1]
          /\ fcr_file = pair[2]
    /\ cache = [load_mfrr_data |-> <<>>, load_fcr_data |-> <<>>]
    /\ first_run = TRUE
    /\ FreshRun

\* An uncaught exception ends the run: Streamlit shows the traceback and
\* nothing below the raising line is executed.
Raise(exception, line) ==
    /\ pc' = "crashed"
    /\ raised' = <<exception, line>>

\* The value a widget returns: its default until the user has touched the
\* widgets, afterwards any value the user can have set.
WidgetValues(default, choices) ==
    IF first_run THEN {default} ELSE {default} \cup choices

\* ------------------------------------------------------------- loaders
\* The body of load_mfrr_data / load_fcr_data: read_excel and the lookup of
\* the timestamp column raise inside the try block; the handler shows an
\* error and returns an empty frame.
LoadBody(file, timecol, what) ==
    IF file.readable /\ HasColumn(file.sheet, timecol)
    THEN [value |-> file.sheet, errors |-> <<>>]
    ELSE [value |-> EmptyFrame, errors |-> <<what>>]

\* @st.cache_data: the body runs on the first call only; later calls return
\* a copy of the stored value and replay the elements the body showed.
Cached(name, body) == IF cache[name] = <<>> THEN body ELSE cache[name][1]

\* Line 28: mfrr_df = load_mfrr_data()
LoadMfrr ==
    /\ pc = "load_mfrr"
    /\ LET entry == Cached("load_mfrr_data",
                           LoadBody(mfrr_file, Period, "Error loading MFRR data"))
       IN /\ cache' = [cache EXCEPT !.load_mfrr_data = <<entry>>]
          /\ mfrr_df' = entry.value
          /\ messages' = messages \o entry.errors
    /\ namespace' = namespace \cup {"mfrr_df"}
    /\ pc' = "load_fcr"
    /\ UNCHANGED <<files, first_run, raised, rendered, fcr_df, sidebar, prepared,
                   price_view, volume_view, analysis>>

\* Line 29: fcr_df = load_fcr_data()
LoadFcr ==
    /\ pc = "load_fcr"
    /\ LET entry == Cached("load_fcr_data",
                           LoadBody(fcr_file, Datum, "Error loading FCR data"))
       IN /\ cache' = [cache EXCEPT !.load_fcr_data = <<entry>>]
          /\ fcr_df' = entry.value
          /\ messages' = messages \o entry.errors
    /\ namespace' = namespace \cup {"fcr_df"}
    /\ pc' = "sidebar"
    /\ UNCHANGED <<files, first_run, raised, rendered, mfrr_df, sidebar, prepared,
                   price_view, volume_view, analysis>>

\* ------------------------------------------------------- lines 31 - 73
\* The date bounds, the date slider, the product checkboxes and the price
\* slider.  mfrr_df['Period'] and fcr_df['Datum'] raise KeyError on a frame
\* without that column.
Sidebar ==
    /\ pc = "sidebar"
    /\ IF ~HasColumn(mfrr_df, Period) \/ ~HasColumn(fcr_df, Datum)
       THEN /\ Raise("KeyError", 38)
            /\ UNCHANGED <<sidebar, namespace>>
       ELSE LET lo == IF ColumnMin(mfrr_df, Period) <= ColumnMin(fcr_df, Datum)
                      THEN ColumnMin(mfrr_df, Period) ELSE ColumnMin(fcr_df, Datum)
                hi == IF ColumnMax(mfrr_df, Period) >= ColumnMax(fcr_df, Datum)
                      THEN ColumnMax(mfrr_df, Period) ELSE ColumnMax(fcr_df, Datum)
            IN /\ min_date' = lo
               /\ max_date' = hi
               /\ date_range' \in WidgetValues(<<lo, hi>>,
                                    {<<a, b>> \in (lo..hi) \X (lo..hi) : a <= b})
               /\ \E ticked \in WidgetValues(ProductSet, TickedChoices) :
                      price_products' = [p \in ProductSet |-> p \in ticked]
               /\ \E range \in WidgetValues(<<PriceSliderMin, PriceSliderMax>>,
                                            PriceRangeChoices) :
                      /\ range[1] \in PriceSliderValues
                      /\ range[2] \in PriceSliderValues
                      /\ range[1] <= range[2]
                      /\ min_price' = range[1]
                      /\ max_price' = range[2]
               /\ namespace' = namespace \cup {"min_date", "max_date", "date_range",
                                               "price_products", "min_price", "max_price"}
               /\ pc' = "prepare"
               /\ UNCHANGED raised
    /\ UNCHANGED <<files, cache, first_run, messages, rendered, loaded, prepared,
                   price_view, volume_view, analysis>>

\* Line 122: fcr_price_df, fcr_volume_df = prepare_fcr_data(fcr_df)
Prepare ==
    /\ pc = "prepare"
    /\ LET result == prepare_fcr_data(fcr_df)
       IN /\ fcr_price_df' = result[1]
          /\ fcr_volume_df' = result[2]
          /\ fcr_df' = result[3]
    /\ namespace' = namespace \cup {"fcr_price_df", "fcr_volume_df"}
    /\ pc' = "filter"
    /\ UNCHANGED <<files, cache, first_run, raised, messages, rendered, mfrr_df,
                   sidebar, price_view, volume_view, analysis>>

\* Lines 124 - 135: the date and price filter of the FCR tables.  A long
\* table built from no column is pd.DataFrame(), whose ['Datum'] raises.
FilterFcr ==
    /\ pc = "filter"
    /\ IF ~HasColumn(fcr_price_df, Datum)
       THEN /\ Raise("KeyError", 126)
            /\ UNCHANGED prepared
       ELSE IF ~HasColumn(fcr_volume_df, Datum)
       THEN /\ Raise("KeyError", 133)
            /\ fcr_price_df' = FilterPrices(fcr_price_df, date_range, min_price, max_price)
            /\ UNCHANGED fcr_volume_df
       ELSE /\ fcr_price_df' = FilterPrices(fcr_price_df, date_range, min_price, max_price)
            /\ fcr_volume_df' = FilterDates(fcr_volume_df, date_range)
            /\ pc' = "price_chart"
            /\ UNCHANGED raised
    /\ UNCHANGED <<files, cache, first_run, messages, rendered, namespace, loaded,
                   sidebar, price_view, volume_view, analysis>>

\* ------------------------------------------------------ lines 137 - 195
\* The combined price chart: the FCR rows of the ticked products, and one
\* trace per ticked mFRR product when mfrr_df is not empty.
PriceChart ==
    /\ pc = "price_chart"
    /\ LET selected == SelectSeq(ProductOptions, LAMBDA k : price_products[k])
           filtered == FilterIsin(fcr_price_df, Product, Range(selected))
       IN /\ selected_price_products' = selected
          /\ filtered_price_df' = filtered
          /\ fig_price' =
                [data |-> filtered,
                 color |-> Product,
                 traces |-> IF ~IsEmpty(mfrr_df)
                            THEN MfrrTraces(mfrr_df, 1, price_products, date_range,
                                            min_price, max_price, <<>>)
                            ELSE <<>>]
    /\ rendered' = Append(rendered, "fig_price")
    /\ namespace' = namespace \cup {"selected_price_products", "filtered_price_df", "fig_price"}
    /\ pc' = "volume"
    /\ UNCHANGED <<files, cache, first_run, raised, messages, loaded, sidebar,
                   prepared, volume_view, analysis>>

\* ------------------------------------------------------ lines 197 - 239
\* The volume chart of the selected product.  fig_vol is bound in the FCR
\* branch, and in the mFRR branch only when the volume column is present;
\* line 239 reads it in every case.
VolumeView ==
    /\ pc = "volume"
    /\ \E selection \in WidgetValues(ProductOptions[1], ProductSet) :
         /\ product_selection' = selection
         /\ IF IsFcrProduct(selection)
            THEN /\ fig_vol' = [data |-> FilterEquals(fcr_volume_df, Product, selection),
                                color |-> Region,
                                traces |-> <<>>]
                 /\ namespace' = namespace \cup {"product_selection", "filtered_volumes", "fig_vol"}
                 /\ rendered' = Append(rendered, "fig_vol")
                 /\ pc' = "analysis"
                 /\ UNCHANGED raised
            ELSE IF ~HasColumn(mfrr_df, mfrr_vol_col(selection))
            THEN /\ Raise("NameError", 239)
                 /\ namespace' = namespace \cup {"product_selection", "mfrr_vol_col"}
                 /\ UNCHANGED <<fig_vol, rendered>>
            ELSE IF ~HasColumn(mfrr_df, Elomrade)
            THEN /\ Raise("KeyError", 222)
                 /\ namespace' = namespace \cup {"product_selection", "mfrr_vol_col"}
                 /\ UNCHANGED <<fig_vol, rendered>>
            ELSE /\ fig_vol' = [data |-> MfrrVolumes(mfrr_df, mfrr_vol_col(selection),
                                                     date_range),
                                color |-> Elomrade,
                                traces |-> <<>>]
                 /\ namespace' = namespace \cup {"product_selection", "mfrr_vol_col",
                                                 "filtered_mfrr", "fig_vol"}
                 /\ rendered' = Append(rendered, "fig_vol")
                 /\ pc' = "analysis"
                 /\ UNCHANGED raised
    /\ UNCHANGED <<files, cache, first_run, messages, loaded, sidebar, prepared,
                   price_view, analysis>>

\* ------------------------------------------------------ lines 241 - 290
\* The price analysis: all_prices is the filtered FCR price table followed
\* by the two mFRR price columns of mfrr_df as loaded, then the product
\* filter, the top-N table and the distribution plot.
PriceAnalysis ==
    /\ pc = "analysis"
    /\ \E n \in WidgetValues(TopNDefault, TopNChoices),
          labels \in WidgetValues(ProductSet, ProductFilterChoices) :
         /\ n \in TopNMin..TopNMax
         /\ top_n' = n
         /\ product_filter' = labels
         /\ IF ~HasColumn(mfrr_df, mFRRUppPris)
            THEN /\ Raise("KeyError", 257)
                 /\ UNCHANGED <<all_prices, top_prices, fig_dist, rendered>>
            ELSE IF ~HasColumn(mfrr_df, mFRRNedPris)
            THEN /\ Raise("KeyError", 258)
                 /\ UNCHANGED <<all_prices, top_prices, fig_dist, rendered>>
            ELSE LET kept == ApplyProductFilter(CombinedPrices(fcr_price_df, mfrr_df),
                                                labels)
                 IN /\ all_prices' = kept
                    /\ top_prices' = SelectColumns(NLargest(kept, n, Price),
                                                   <<Date, Market, Price>>)
                    /\ fig_dist' = [data |-> kept, color |-> Market, traces |-> <<>>]
                    /\ rendered' = rendered \o <<"top_prices", "fig_dist">>
                    /\ pc' = "done"
                    /\ UNCHANGED raised
    /\ namespace' = namespace \cup {"top_n", "product_filter"}
                       \cup (IF pc' = "done" THEN {"all_prices", "top_prices", "fig_dist"} ELSE {})
    /\ UNCHANGED <<files, cache, first_run, messages, loaded, sidebar, prepared,
                   price_view, volume_view>>

\* ------------------------------------------------------------- reruns
\* The user changes a widget: Streamlit runs the script again from the top
\* in a fresh namespace.  The cache is kept.
Rerun ==
    /\ pc \in {"done", "crashed"}
    /\ first_run' = FALSE
    /\ pc' = "load_mfrr"
    /\ raised' = <<>>
    /\ messages' = <<>>
    /\ rendered' = <<>>
    /\ namespace' = {}
    /\ mfrr_df' = EmptyFrame
    /\ fcr_df' = EmptyFrame
    /\ min_date' = 0
    /\ max_date' = 0
    /\ date_range' = <<0, 0>>
    /\ price_products' = [p \in ProductSet |-> TRUE]
    /\ min_price' = PriceSliderMin
    /\ max_price' = PriceSliderMax
    /\ fcr_price_df' = EmptyFrame
    /\ fcr_volume_df' = EmptyFrame
    /\ selected_price_products' = <<>>
    /\ filtered_price_df' = EmptyFrame
    /\ fig_price' = NoFigure
    /\ product_selection' = ProductOptions[1]
    /\ fig_vol' = NoFigure
    /\ top_n' = TopNDefault
    /\ product_filter' = ProductSet
    /\ all_prices' = EmptyFrame
    /\ top_prices' = EmptyFrame
    /\ fig_dist' = NoFigure
    /\ UNCHANGED <<files, cache>>

Next ==
    \/ LoadMfrr
    \/ LoadFcr
    \/ Sidebar
    \/ Prepare
    \/ FilterFcr
    \/ PriceChart
    \/ VolumeView
    \/ PriceAnalysis
    \/ Rerun

Spec == Init /\ [][Next]_vars

\* ======================================================== properties
\* Where the run stands.
AfterFilter ==
    \/ pc \in {"price_chart", "volume", "analysis", "done"}
    \/ pc = "crashed" /\ raised[2] > 135

AfterPriceChart ==
    \/ pc \in {"volume", "analysis", "done"}
    \/ pc = "crashed" /\ raised[2] > 195

AfterVolumeView ==
    \/ pc \in {"analysis", "done"}
    \/ pc = "crashed" /\ raised[2] > 239

WithinDates(row) == date_range[1] <= row[Datum] /\ row[Datum] <= date_range[2]

HasPrice(row) == row[Price] # NaN

WithinPrices(row) ==
    /\ HasPrice(row)
    /\ min_price <= row[Price][1]
    /\ row[Price][1] <= max_price

\* out holds exactly the elements of in at the positions kept, in the order
\* they have in in.
IsSelection(out, in, kept) ==
    /\ Len(out) = Cardinality(kept)
    /\ \A i \in kept : out[Cardinality({j \in kept : j <= i})] = in[i]

\* The positions of the rows inside the selected date range, and of those
\* that are also inside the selected price range.
DatesKept(rows) == {i \in 1..Len(rows) : WithinDates(rows[i])}
DatesAndPricesKept(rows) ==
    {i \in 1..Len(rows) : WithinDates(rows[i]) /\ WithinPrices(rows[i])}

\* The mapped columns the frame has, in the order of the mapping.
Present(mapping, df) == SelectSeq(mapping, LAMBDA entry : entry[1] \in Range(df.columns))

\* The mFRR trace of a product in fig_price.
TraceOf(product) ==
    fig_price.traces[CHOOSE k \in 1..Len(fig_price.traces) :
                        fig_price.traces[k].name = product]

HasTrace(product) ==
    \E k \in 1..Len(fig_price.traces) : fig_price.traces[k].name = product

\* ---------------------------------------------------------------- C1
\* C1: when a loader has caught an exception and returned an empty frame,
\* the run shows the error and still reaches the end of the script, with
\* every chart and table rendered; no later line raises.
C1_LoadFailureIsNotFatal ==
    /\ messages # <<>> => pc # "crashed"
    /\ (messages # <<>> /\ pc = "done")
          => rendered = <<"fig_price", "fig_vol", "top_prices", "fig_dist">>

\* ---------------------------------------------------------------- C2
\* C2 as stated: wherever the script filters by the selected products, an
\* empty selection keeps all rows, in order: the combined price chart with
\* no checkbox ticked, and the price analysis with an empty multiselect.
C2_EmptySelectionKeepsAll ==
    /\ (AfterPriceChart /\ selected_price_products = <<>>)
          => filtered_price_df = fcr_price_df
    /\ (pc = "done" /\ product_filter = {})
          => all_prices = CombinedPrices(fcr_price_df, mfrr_df)

\* C2 as amended: an empty multiselect keeps every row of the combined price
\* table, in order; the checkboxes select what is shown, so with no checkbox
\* ticked the price chart has no FCR row and no mFRR trace.
C2_EmptyMultiselectKeepsAll ==
    /\ (pc = "done" /\ product_filter = {})
          => all_prices = CombinedPrices(fcr_price_df, mfrr_df)
    /\ (AfterPriceChart /\ selected_price_products = <<>>)
          => /\ filtered_price_df.rows = <<>>
             /\ fig_price.traces = <<>>

C2_Witness ==
    /\ pc = "done"
    /\ product_filter = {}
    /\ selected_price_products = <<>>
    /\ Len(fcr_price_df.rows) > 0
    /\ Len(all_prices.rows) > Len(fcr_price_df.rows)

\* ---------------------------------------------------------------- C3
\* The sources of the four filtered tables.
FcrPriceSource == prepare_fcr_data(fcr_df)[1].rows
FcrVolumeSource == prepare_fcr_data(fcr_df)[2].rows
MfrrPriceSource(k) ==
    MfrrPriceLong(mfrr_df, mfrr_price_mapping[k][1], mfrr_price_mapping[k][2]).rows
MfrrVolumeSource == MfrrVolumeLong(mfrr_df, mfrr_vol_col(product_selection)).rows

\* C3 as stated: each of the four date-filtered tables holds exactly the
\* rows of its source whose timestamp lies in [start, end], in order.
\* Checked when the volume chart has been rendered, where all four exist.
C3_DateFilterExact ==
    pc = "analysis" =>
       /\ IsSelection(fcr_price_df.rows, FcrPriceSource, DatesKept(FcrPriceSource))
       /\ IsSelection(fcr_volume_df.rows, FcrVolumeSource, DatesKept(FcrVolumeSource))
       /\ \A k \in 1..Len(mfrr_price_mapping) :
             HasTrace(mfrr_price_mapping[k][2]) =>
                IsSelection(TraceOf(mfrr_price_mapping[k][2]).data.rows,
                            MfrrPriceSource(k), DatesKept(MfrrPriceSource(k)))
       /\ ~IsFcrProduct(product_selection) =>
             IsSelection(fig_vol.data.rows, MfrrVolumeSource, DatesKept(MfrrVolumeSource))

\* C3 as amended: the two volume tables hold exactly the rows with
\* start <= t <= end, in order; the two price tables are masked by the date
\* and the price range together and hold exactly the rows with
\* start <= t <= end whose price is present and within
\* [min_price, max_price], in order.  An empty result is not an error.
C3_DateFilter ==
    pc = "analysis" =>
       /\ IsSelection(fcr_price_df.rows, FcrPriceSource, DatesAndPricesKept(FcrPriceSource))
       /\ IsSelection(fcr_volume_df.rows, FcrVolumeSource, DatesKept(FcrVolumeSource))
       /\ \A k \in 1..Len(mfrr_price_mapping) :
             HasTrace(mfrr_price_mapping[k][2]) =>
                IsSelection(TraceOf(mfrr_price_mapping[k][2]).data.rows,
                            MfrrPriceSource(k), DatesAndPricesKept(MfrrPriceSource(k)))
       /\ ~IsFcrProduct(product_selection) =>
             IsSelection(fig_vol.data.rows, MfrrVolumeSource, DatesKept(MfrrVolumeSource))

\* A run in which each of the four filters drops a row and keeps a row.
C3_Witness ==
    /\ pc = "analysis"
    /\ ~IsFcrProduct(product_selection)
    /\ Len(fig_vol.data.rows) > 0
    /\ Len(fig_vol.data.rows) < Len(mfrr_df.rows)
    /\ Len(fcr_volume_df.rows) > 1
    /\ Len(fcr_volume_df.rows) < Len(FcrVolumeSource)
    /\ Len(fcr_price_df.rows) > 0
    /\ \E r \in Range(FcrPriceSource) : ~WithinDates(r)
    /\ HasTrace("mFRR Up")
    /\ Len(TraceOf("mFRR Up").data.rows) > 0
    /\ Len(TraceOf("mFRR Up").data.rows) < Len(mfrr_df.rows)

\* ---------------------------------------------------------------- C4
\* C4: top_prices has min(top_n, |all_prices|) entries, in descending order
\* of Price (entries without a price last), and the entries with the same
\* price stand in the order they have in all_prices, the first seen first:
\* they are the first of the rows of all_prices with that price.
PriceOf(row) == row[Price][1]

WithPrice(rows, cell) == SelectSeq(rows, LAMBDA r : r[Price] = cell)

C4_TopN ==
    pc = "done" =>
       LET top == top_prices.rows
           T == all_prices.rows
       IN /\ Len(top) = IF top_n < Len(T) THEN top_n ELSE Len(T)
          /\ \A p, q \in 1..Len(top) :
                (p < q /\ HasPrice(top[q]))
                   => HasPrice(top[p]) /\ PriceOf(top[p]) >= PriceOf(top[q])
          /\ \A p \in 1..Len(top) :
                HasPrice(top[p]) =>
                   LET same == WithPrice(top, top[p][Price])
                   IN /\ Len(same) <= Len(WithPrice(T, top[p][Price]))
                      /\ same = SubSeq(WithPrice(T, top[p][Price]), 1, Len(same))

\* The table is longer than top_n, and the top holds two different entries
\* with the same price.
C4_Witness ==
    /\ pc = "done"
    /\ Len(all_prices.rows) > top_n
    /\ Len(top_prices.rows) = top_n
    /\ \E p, q \in 1..Len(top_prices.rows) :
          /\ p < q
          /\ HasPrice(top_prices.rows[p])
          /\ top_prices.rows[p][Price] = top_prices.rows[q][Price]
          /\ top_prices.rows[p] # top_prices.rows[q]

\* ---------------------------------------------------------------- C5
\* C5: prepare_fcr_data emits one long record for every row of fcr_df and
\* every mapped column the frame has, column by column in the order of the
\* mapping: the record carries the row's Datum, the cell as Price or
\* Volume, the product of the column and, for volumes, the first token of
\* the column name as Region.
C5_Unpivot ==
    pc = "filter" =>
       LET n == Len(fcr_df.rows)
           prices == Present(price_mapping, fcr_df)
           volumes == Present(volume_mapping, fcr_df)
       IN /\ Len(fcr_price_df.rows) = n * Len(prices)
          /\ Len(fcr_volume_df.rows) = n * Len(volumes)
          /\ \A k \in 1..Len(prices), i \in 1..n :
                LET rec == fcr_price_df.rows[(k - 1) * n + i]
                IN /\ rec[Datum] = fcr_df.rows[i][Datum]
                   /\ rec[Price] = fcr_df.rows[i][prices[k][1]]
                   /\ rec[Product] = prices[k][2]
          /\ \A k \in 1..Len(volumes), i \in 1..n :
                LET rec == fcr_volume_df.rows[(k - 1) * n + i]
                IN /\ rec[Datum] = fcr_df.rows[i][Datum]
                   /\ rec[Volume] = fcr_df.rows[i][volumes[k][1]]
                   /\ rec[Product] = volumes[k][2]
                   /\ rec[Region] = volumes[k][1][1]

\* Two source rows, three price columns and three volume columns.
C5_Witness ==
    /\ pc = "filter"
    /\ Len(fcr_df.rows) = MaxRows
    /\ Len(Present(price_mapping, fcr_df)) = 3
    /\ Len(Present(volume_mapping, fcr_df)) = 3
    /\ Len(fcr_volume_df.rows) = 3 * MaxRows

\* A frame that lacks a mapped price column.
C5_WitnessAbsent ==
    /\ pc = "filter"
    /\ Len(Present(price_mapping, fcr_df)) = 2
    /\ Len(fcr_price_df.rows) = 2 * Len(fcr_df.rows)

\* ---------------------------------------------------------------- C6
\* C6 as stated: a row of fcr_df inside the selected date range whose price
\* is missing is still there, as a record without a price, in the price
\* table handed to the chart and to the top-N step.
C6_MissingPriceKept ==
    pc = "price_chart" =>
       \A k \in 1..Len(Present(price_mapping, fcr_df)), i \in 1..Len(fcr_df.rows) :
          LET col == Present(price_mapping, fcr_df)[k][1]
              product == Present(price_mapping, fcr_df)[k][2]
              day == fcr_df.rows[i][Datum]
          IN (fcr_df.rows[i][col] = NaN /\ date_range[1] <= day /\ day <= date_range[2])
               => \E r \in Range(fcr_price_df.rows) :
                     r[Datum] = day /\ r[Product] = product /\ r[Price] = NaN

\* C6 as amended: the unpivot keeps a row whose price is missing, as a
\* record without a price; the price-range mask applied right after it is
\* False on a missing price, so no record without a price is left in the
\* FCR price table handed to the chart and to the top-N step, nor in the
\* mFRR price series of the chart.
C6_MissingPriceMasked ==
    /\ pc = "filter" =>
          \A k \in 1..Len(Present(price_mapping, fcr_df)), i \in 1..Len(fcr_df.rows) :
             fcr_df.rows[i][Present(price_mapping, fcr_df)[k][1]] = NaN
                => fcr_price_df.rows[(k - 1) * Len(fcr_df.rows) + i][Price] = NaN
    /\ AfterFilter =>
          \A r \in Range(fcr_price_df.rows) : r[Price] # NaN
    /\ AfterPriceChart =>
          \A k \in 1..Len(fig_price.traces) :
             \A r \in Range(fig_price.traces[k].data.rows) : r[Price] # NaN

\* The chart is drawn from a frame with a missing FCR price and a missing
\* mFRR price inside the date range, and other prices are kept.
C6_Witness ==
    /\ pc = "volume"
    /\ \E i \in 1..Len(fcr_df.rows) :
          /\ fcr_df.rows[i][price_mapping[2][1]] = NaN
          /\ date_range[1] <= fcr_df.rows[i][Datum]
          /\ fcr_df.rows[i][Datum] <= date_range[2]
    /\ \E i \in 1..Len(mfrr_df.rows) :
          /\ mfrr_df.rows[i][mFRRNedPris] = NaN
          /\ date_range[1] <= mfrr_df.rows[i][Period]
          /\ mfrr_df.rows[i][Period] <= date_range[2]
    /\ HasTrace("mFRR Down")
    /\ Len(fcr_price_df.rows) > 0

\* ---------------------------------------------------------------- C8
\* C8: through every step and every rerun, mfrr_df and fcr_df hold what the
\* loaders returned: the sheet as read, or the empty frame of the handler.
C8_RawTablesUntouched ==
    /\ "mfrr_df" \in namespace =>
          /\ mfrr_df = cache.load_mfrr_data[1].value
          /\ mfrr_df = LoadBody(mfrr_file, Period, "Error loading MFRR data").value
    /\ "fcr_df" \in namespace =>
          /\ fcr_df = cache.load_fcr_data[1].value
          /\ fcr_df = LoadBody(fcr_file, Datum, "Error loading FCR data").value

\* A rerun has gone through the reshapes of both frames.
C8_Witness ==
    /\ pc = "done"
    /\ ~first_run
    /\ ~IsFcrProduct(product_selection)
    /\ Len(fig_price.traces) = 2
    /\ Len(fcr_price_df.rows) > 0
    /\ Len(fcr_df.rows) > 0
    /\ Len(mfrr_df.rows) > 0

\* ---------------------------------------------------------------- C9
\* C9: every row of the price analysis (the top-N table and the
\* distribution plot) lies inside the selected date range and the selected
\* price range, whatever its market.
C9_AnalysisFiltered ==
    pc = "done" =>
       \A r \in Range(all_prices.rows) \cup Range(top_prices.rows) :
          /\ date_range[1] <= r[Date]
          /\ r[Date] <= date_range[2]
          /\ r[Price] # NaN
          /\ min_price <= r[Price][1]
          /\ r[Price][1] <= max_price

\* ---------------------------------------------------------------- C10
\* C10: line 239 never reads fig_vol before it is bound.
C10_FigVolBound ==
    /\ raised # <<"NameError", 239>>
    /\ "fig_vol" \in Range(rendered) => "fig_vol" \in namespace

====
